---- MODULE Spec2Model ----
(***************************************************************************)
(* Model of the fund analysis scripts of localdog.                         *)
(*                                                                         *)
(*   variant = "simple"  fund_quant_system_simple.py: five-minute cache of *)
(*                       the real-time payload, growth-only advice, batch  *)
(*                       analysis and grouped summary.                     *)
(*   variant = "final"   fund_quant_system_final.py: moving averages, RSI, *)
(*                       trend advice with RSI override, confidence.       *)
(*                                                                         *)
(* Numbers.  Growth percentages are integers in hundredths of a percent    *)
(* (1.5 % is 150).  Net asset values are integers in thousandths (1.05 is  *)
(* 1050).  Averages and RSI are exact rationals <<num, den>> with den > 0, *)
(* compared by cross multiplication; binary floating point rounding is not *)
(* modelled.  Confidence is an integer in hundredths (0.95 is 95).  Time   *)
(* is time.time() counted in ticks of half a second, the length of the     *)
(* sleep between two funds of a batch.                                     *)
(***************************************************************************)
EXTENDS Integers, Sequences, FiniteSets, TLC

VARIABLES
    variant,      \* which script is running
    clock,        \* time.time()
    fund_cache,   \* simple: self.fund_cache, keyed by fund code
    pc,           \* position of the caller: "idle", "fetch", "store", "done"
    batch,        \* fund_codes of the running batch
    idx,          \* index in batch of the fund being processed (1-based)
    results,      \* the results dict of analyze_multiple_funds
    last_result,  \* value returned by the latest per-fund analysis
    calls,        \* history: per fund, the two latest calls of get_fund_realtime_info
    ncalls,       \* history: number of per-fund analyses so far
    groups,       \* simple: buy/sell/watch/hold lists of get_trading_summary
    inputs,       \* history: per fund, what the remote side answered in the
                  \* running operation (a dict in call order)
    fetch_log     \* history: the fund codes of the real-time requests sent by
                  \* the running operation, in the order they were sent

vars == <<variant, clock, fund_cache, pc, batch, idx, results, last_result,
          calls, ncalls, groups, inputs, fetch_log>>

----------------------------------------------------------------------------
(* Bounds of the model *)

MaxTime == 1200
MaxCalls == 3

----------------------------------------------------------------------------
(* Fund codes and batches *)

Funds == {"000001", "110022", "519697"}

\* fund_codes of one batch: the instrument ids are a set, so no code repeats
Batches ==
    {b \in UNION {[1..n -> Funds] : n \in 1..Cardinality(Funds)} :
        \A i, j \in 1..Len(b) : b[i] = b[j] => i = j}

----------------------------------------------------------------------------
(* Python dict that keeps insertion order: a sequence of <<key, value>> *)

DictHas(d, k) == \E i \in 1..Len(d) : d[i][1] = k

DictGet(d, k) == d[CHOOSE i \in 1..Len(d) : d[i][1] = k][2]

\* the dict created anew at every assignment
DictSet_Fresh(d, k, v) == <<<<k, v>>>>

DictSet(d, k, v) ==
    IF DictHas(d, k)
    THEN [i \in 1..Len(d) |-> IF d[i][1] = k THEN <<k, v>> ELSE d[i]]
    ELSE Append(d, <<k, v>>)

DictKeys(d) == [i \in 1..Len(d) |-> d[i][1]]

----------------------------------------------------------------------------
(* simple: remote answers and the real-time payload *)

cache_timeout == 300

\* ticks in a second: time.sleep(0.5) lasts one tick
TicksPerSecond == 2

TimeoutTicks == cache_timeout * TicksPerSecond

\* same-day growth values a payload may carry, in hundredths of a percent
GrowthSimple == -150..150

\* data dict after parsing and conversion; {} is EmptyDict
EmptyDict == [nonempty |-> FALSE, has_gszzl |-> FALSE, gszzl |-> 0]

DataDict(g) == [nonempty |-> TRUE, has_gszzl |-> TRUE, gszzl |-> g]

DataNoGrowth == [nonempty |-> TRUE, has_gszzl |-> FALSE, gszzl |-> 0]

\* what session.get answers: a transport or HTTP error, or a body that is
\* not JSONP, or a JSONP body whose gszzl is missing, not a number, or a number
Failures ==
    {[net |-> "error", body |-> "none", gszzl |-> "missing", value |-> 0],
     [net |-> "ok", body |-> "garbage", gszzl |-> "missing", value |-> 0],
     [net |-> "ok", body |-> "json", gszzl |-> "bad", value |-> 0]}

Payloads(G) ==
    {[net |-> "ok", body |-> "json", gszzl |-> "num", value |-> g] : g \in G}

Responses ==
    Failures \cup Payloads(GrowthSimple)
    \cup {[net |-> "ok", body |-> "json", gszzl |-> "missing", value |-> 0]}

\* the answers drawn while a batch is followed: a transport failure, a body
\* that does not parse, and one payload for each advice
GrowthBatch == {-101, -51, 0, 101}

ResponsesBatch == {r \in Failures : r.gszzl # "bad"} \cup Payloads(GrowthBatch)

\* _parse_jsonp: the dict of the body, {} when nothing matches or json.loads
\* raises (the exception is swallowed)
parse_jsonp(resp) ==
    IF resp.body = "json"
    THEN [nonempty |-> TRUE, has_gszzl |-> resp.gszzl # "missing", gszzl |-> resp.value]
    ELSE EmptyDict

\* float(data['gszzl']) raises ValueError on a non-numeric string
ConversionRaises(resp) == resp.body = "json" /\ resp.gszzl = "bad"

NoEntry == [present |-> FALSE, data |-> EmptyDict, timestamp |-> 0]

Entry(data, ts) == [present |-> TRUE, data |-> data, timestamp |-> ts]

\* the check of line 52 with <= in the place of <
IsFresh_Inclusive(entry, current_time) ==
    entry.present /\ current_time - entry.timestamp <= TimeoutTicks

\* line 52: the entry is served while its age is below cache_timeout
IsFresh(entry, current_time) ==
    entry.present /\ current_time - entry.timestamp < TimeoutTicks

\* the try block without line 69
FetchAndStore_NoStore(cache, fund_code, current_time, resp) ==
    IF resp.net = "error" \/ ConversionRaises(resp)
    THEN [ret |-> EmptyDict, cache |-> cache, fetched |-> TRUE, raised |-> TRUE]
    ELSE [ret |-> parse_jsonp(resp), cache |-> cache,
          fetched |-> TRUE, raised |-> FALSE]

\* try block, lines 55-74: what is returned and what is cached once the
\* remote has answered resp
FetchAndStore(cache, fund_code, current_time, resp) ==
    IF resp.net = "error" \/ ConversionRaises(resp)
    THEN [ret |-> EmptyDict, cache |-> cache, fetched |-> TRUE, raised |-> TRUE]
    ELSE LET data == parse_jsonp(resp)
         IN  [ret |-> data,
              cache |-> [cache EXCEPT ![fund_code] = Entry(data, current_time)],
              fetched |-> TRUE, raised |-> FALSE]

\* get_fund_realtime_info(fund_code) called at current_time
get_fund_realtime_info(cache, fund_code, current_time, resp) ==
    IF IsFresh(cache[fund_code], current_time)
    THEN [ret |-> cache[fund_code].data, cache |-> cache,
          fetched |-> FALSE, raised |-> FALSE]
    ELSE FetchAndStore(cache, fund_code, current_time, resp)

----------------------------------------------------------------------------
(* simple: growth-only advice *)

GrowthSell == 100
GrowthBuy == -100
GrowthHold == 50
GrowthWatch == -50

ErrorResult == [error |-> TRUE, advice |-> "none", reason |-> "no_data", growth_rate |-> 0]

Advice(a, r, g) == [error |-> FALSE, advice |-> a, reason |-> r, growth_rate |-> g]

\* the chain with >= and <= in place of > and <
GrowthAdvice_Inclusive(growth_rate) ==
    IF growth_rate >= GrowthSell THEN Advice("sell", "take_profit", growth_rate)
    ELSE IF growth_rate <= GrowthBuy THEN Advice("buy", "dip_buy", growth_rate)
    ELSE IF growth_rate >= GrowthHold THEN Advice("hold", "small_rise", growth_rate)
    ELSE IF growth_rate <= GrowthWatch THEN Advice("watch", "small_fall", growth_rate)
    ELSE Advice("hold", "stable", growth_rate)

\* lines 88-105: the if/elif chain on growth_rate
GrowthAdvice(growth_rate) ==
    IF growth_rate > GrowthSell THEN Advice("sell", "take_profit", growth_rate)
    ELSE IF growth_rate < GrowthBuy THEN Advice("buy", "dip_buy", growth_rate)
    ELSE IF growth_rate > GrowthHold THEN Advice("hold", "small_rise", growth_rate)
    ELSE IF growth_rate < GrowthWatch THEN Advice("watch", "small_fall", growth_rate)
    ELSE Advice("hold", "stable", growth_rate)

\* calculate_technical_indicators(fund_code) of the simple script, given the
\* dict get_fund_realtime_info returned
SimpleIndicators(realtime_data) ==
    IF ~realtime_data.nonempty THEN ErrorResult
    ELSE GrowthAdvice(IF realtime_data.has_gszzl THEN realtime_data.gszzl ELSE 0)

----------------------------------------------------------------------------
(* simple: grouping of get_trading_summary, lines 133-155 *)

EmptyGroups == [buy |-> <<>>, sell |-> <<>>, watch |-> <<>>, hold |-> <<>>]

GroupOf(advice) ==
    IF advice = "buy" THEN "buy"
    ELSE IF advice = "sell" THEN "sell"
    ELSE IF advice = "watch" THEN "watch"
    ELSE "hold"

RECURSIVE GroupResults_Prepend(_, _, _)
\* the grouping with every tuple put at the head of its list
GroupResults_Prepend(analysis_results, i, acc) ==
    IF i > Len(analysis_results) THEN acc
    ELSE LET fund_code == analysis_results[i][1]
             result == analysis_results[i][2]
         IN  IF result.error
             THEN GroupResults_Prepend(analysis_results, i + 1, acc)
             ELSE GroupResults_Prepend(analysis_results, i + 1,
                     [acc EXCEPT ![GroupOf(result.advice)] = <<fund_code>> \o @])

RECURSIVE GroupResults(_, _, _)
GroupResults(analysis_results, i, acc) ==
    IF i > Len(analysis_results) THEN acc
    ELSE LET fund_code == analysis_results[i][1]
             result == analysis_results[i][2]
         IN  IF result.error
             THEN GroupResults(analysis_results, i + 1, acc)
             ELSE GroupResults(analysis_results, i + 1,
                     [acc EXCEPT ![GroupOf(result.advice)] = Append(@, fund_code)])

----------------------------------------------------------------------------
(* State *)

InitCommon ==
    /\ clock = 0
    /\ fund_cache = [f \in Funds |-> NoEntry]
    /\ pc = "idle"
    /\ batch = <<>>
    /\ idx = 0
    /\ results = <<>>
    /\ last_result = ErrorResult
    /\ calls = [f \in Funds |-> <<>>]
    /\ ncalls = 0
    /\ groups = EmptyGroups
    /\ inputs = <<>>
    /\ fetch_log = <<>>

InitSimple == variant = "simple" /\ InitCommon

\* ticks the clock may move between two operations: one tick short of the
\* timeout, so that with the ticks requests take every age around it occurs
Steps == {TimeoutTicks - 1}

\* ticks a remote request may take
Latency == {0, 1}

\* time passes between two operations of the caller
Tick ==
    /\ variant = "simple"
    /\ pc = "idle"
    /\ \E d \in Steps :
         /\ clock + d <= MaxTime
         /\ clock' = clock + d
    /\ UNCHANGED <<variant, fund_cache, pc, batch, idx, results, last_result,
                   calls, ncalls, groups, inputs, fetch_log>>

\* history: the two latest calls for a fund
LastTwo(log, c) == IF Len(log) < 2 THEN Append(log, c) ELSE <<log[2], c>>

\* the analysis with a request that raised sent a second time
AnalyzeSimple_Retry(fund_code, resp, d, fed) ==
    LET r == get_fund_realtime_info(fund_cache, fund_code, clock, resp)
        sent == IF pc = "fetch" THEN fetch_log ELSE <<>>
    IN  /\ fund_cache' = r.cache
        /\ clock' = IF r.fetched THEN clock + d ELSE clock
        /\ last_result' = SimpleIndicators(r.ret)
        /\ calls' = [calls EXCEPT ![fund_code] =
                        LastTwo(@, [now |-> clock, fetched |-> r.fetched,
                                    raised |-> r.raised, ret |-> r.ret,
                                    pre |-> fund_cache[fund_code],
                                    post |-> r.cache[fund_code],
                                    resp |-> resp])]
        /\ ncalls' = ncalls + 1
        /\ inputs' = DictSet(fed, fund_code,
                              [resp |-> resp, ret |-> r.ret, fetched |-> r.fetched])
        /\ fetch_log' = IF r.fetched /\ r.raised
                        THEN Append(Append(sent, fund_code), fund_code)
                        ELSE IF r.fetched THEN Append(sent, fund_code) ELSE sent

\* calculate_technical_indicators(fund_code), lines 82-115, with the call of
\* get_fund_realtime_info it makes; the request, when made, takes d ticks
AnalyzeSimple(fund_code, resp, d, fed) ==
    LET r == get_fund_realtime_info(fund_cache, fund_code, clock, resp)
        sent == IF pc = "fetch" THEN fetch_log ELSE <<>>
    IN  /\ fund_cache' = r.cache
        /\ clock' = IF r.fetched THEN clock + d ELSE clock
        /\ last_result' = SimpleIndicators(r.ret)
        /\ calls' = [calls EXCEPT ![fund_code] =
                        LastTwo(@, [now |-> clock, fetched |-> r.fetched,
                                    raised |-> r.raised, ret |-> r.ret,
                                    pre |-> fund_cache[fund_code],
                                    post |-> r.cache[fund_code],
                                    resp |-> resp])]
        /\ ncalls' = ncalls + 1
        /\ inputs' = DictSet(fed, fund_code,
                              [resp |-> resp, ret |-> r.ret, fetched |-> r.fetched])
        /\ fetch_log' = IF r.fetched THEN Append(sent, fund_code) ELSE sent

\* the funds and answers followed while the cache is exercised call by call
CacheFunds == {"000001", "110022"}

ResponsesCache == Failures \cup Payloads({-101, 101})

\* any analysis outside a batch
CacheCall ==
    /\ variant = "simple"
    /\ pc = "idle"
    /\ ncalls < MaxCalls
    /\ \E fund_code \in CacheFunds, resp \in ResponsesCache, d \in Latency :
         /\ clock + d <= MaxTime
         /\ AnalyzeSimple(fund_code, resp, d, <<>>)
    /\ UNCHANGED <<variant, pc, batch, idx, results, groups>>

NextCache == Tick \/ CacheCall

SpecCache == InitSimple /\ [][NextCache]_vars

\* one analysis on a new system, for every growth of GrowthSimple
GrowthCall ==
    /\ variant = "simple"
    /\ pc = "idle"
    /\ ncalls = 0
    /\ \E fund_code \in Funds, resp \in Responses :
         AnalyzeSimple(fund_code, resp, 0, <<>>)
    /\ UNCHANGED <<variant, pc, batch, idx, results, groups>>

NextGrowth == GrowthCall

SpecGrowth == InitSimple /\ [][NextGrowth]_vars

\* main(): one analysis before the summary
FirstAnalyze ==
    /\ variant = "simple"
    /\ pc = "idle"
    /\ ncalls = 0
    /\ \E fund_code \in {"000001"}, resp \in ResponsesBatch :
         AnalyzeSimple(fund_code, resp, 0, <<>>)
    /\ UNCHANGED <<variant, pc, batch, idx, results, groups>>

\* get_trading_summary(fund_codes) enters analyze_multiple_funds: results = {}
StartSummary ==
    /\ variant = "simple"
    /\ pc = "idle"
    /\ \E b \in Batches : batch' = b
    /\ idx' = 1
    /\ results' = <<>>
    /\ pc' = "fetch"
    /\ inputs' = <<>>
    /\ fetch_log' = <<>>
    /\ UNCHANGED <<variant, clock, fund_cache, last_result, calls, ncalls, groups>>

\* line 122, right-hand side: the analysis of fund_codes[idx]
BatchAnalyze ==
    /\ variant = "simple"
    /\ pc = "fetch"
    /\ \E resp \in ResponsesBatch : AnalyzeSimple(batch[idx], resp, 0, inputs)
    /\ pc' = "store"
    /\ UNCHANGED <<variant, batch, idx, results, groups>>

\* line 122, the assignment, and the sleep of line 123; after the last fund
\* the return and the grouping of get_trading_summary
BatchStore ==
    /\ variant = "simple"
    /\ pc = "store"
    /\ results' = DictSet(results, batch[idx], last_result)
    /\ clock' = clock + 1
    /\ IF idx < Len(batch)
       THEN /\ idx' = idx + 1
            /\ pc' = "fetch"
            /\ groups' = groups
       ELSE /\ idx' = idx
            /\ pc' = "done"
            /\ groups' = GroupResults(results', 1, EmptyGroups)
    /\ UNCHANGED <<variant, fund_cache, batch, last_result, calls, ncalls, inputs,
                   fetch_log>>

NextSimple == Tick \/ FirstAnalyze \/ StartSummary \/ BatchAnalyze \/ BatchStore

SpecSimple == InitSimple /\ [][NextSimple]_vars

----------------------------------------------------------------------------
(* final: exact rationals <<num, den>>, den > 0; None has den = 0 *)

None == <<0, 0>>

IsNone(x) == x[2] = 0

Rat(n, d) == <<n, d>>

Num(n) == <<n, 1>>

RatGT(a, b) == a[1] * b[2] > b[1] * a[2]

RatLT(a, b) == a[1] * b[2] < b[1] * a[2]

RatEQ(a, b) == a[1] * b[2] = b[1] * a[2]

----------------------------------------------------------------------------
(* final: calculate_technical_indicators, lines 139-196 *)

MinHistory == 5
ShortPeriod == 5
MidPeriod == 10
LongPeriod == 20
RsiPeriod == 14
RsiNeutral == 50
RsiMax == 100

Reverse(seq) == [i \in 1..Len(seq) |-> seq[Len(seq) + 1 - i]]

RECURSIVE SumSeq(_, _, _)
\* sum(values[from..to]), 1-based and inclusive
SumSeq(values, from, to) ==
    IF from > to THEN 0 ELSE values[from] + SumSeq(values, from + 1, to)

\* calculate_ma, lines 149-152: the means of all windows of length period
calculate_ma(values, period) ==
    IF Len(values) < period THEN <<>>
    ELSE [i \in 1..(Len(values) - period + 1) |->
            Rat(SumSeq(values, i, i + period - 1), period)]

\* lines 163-173: the gain and the loss of every step
Gains(values) ==
    [i \in 1..(Len(values) - 1) |->
        IF values[i + 1] - values[i] > 0 THEN values[i + 1] - values[i] ELSE 0]

Losses(values) ==
    [i \in 1..(Len(values) - 1) |->
        IF values[i + 1] - values[i] > 0 THEN 0
        ELSE values[i] - values[i + 1]]

\* calculate_rsi with the test of avg_gain left out where avg_loss is zero
calculate_rsi_FlatIsMax(values, period) ==
    IF Len(values) < period + 1 THEN Num(RsiNeutral)
    ELSE LET gains == Gains(values)
             losses == Losses(values)
             n == Len(gains)
             g == SumSeq(gains, n - period + 1, n)
             l == SumSeq(losses, n - period + 1, n)
         IN  IF n < period THEN Num(RsiNeutral)
             ELSE IF l = 0 THEN Num(RsiMax)
             ELSE Rat(RsiMax * g, g + l)

\* calculate_rsi, lines 159-186.  avg_gain = g / period and avg_loss = l / period,
\* so 100 - 100 / (1 + avg_gain / avg_loss) is 100 * g / (g + l)
calculate_rsi(values, period) ==
    IF Len(values) < period + 1 THEN Num(RsiNeutral)
    ELSE LET gains == Gains(values)
             losses == Losses(values)
             n == Len(gains)
             g == SumSeq(gains, n - period + 1, n)
             l == SumSeq(losses, n - period + 1, n)
         IN  IF n < period THEN Num(RsiNeutral)
             ELSE IF l = 0 THEN (IF g > 0 THEN Num(RsiMax) ELSE Num(RsiNeutral))
             ELSE Rat(RsiMax * g, g + l)

\* the dict returned: {} or the five keys
NoIndicators ==
    [empty |-> TRUE, ma5 |-> None, ma10 |-> None, ma20 |-> None,
     rsi |-> None, current_nav |-> None]

LastOrNone(seq) == IF Len(seq) > 0 THEN seq[Len(seq)] ELSE None

\* history_data is newest first; nav_values is in time order
calculate_technical_indicators(history_data) ==
    IF Len(history_data) < MinHistory THEN NoIndicators
    ELSE LET nav_values == Reverse(history_data)
         IN  [empty |-> FALSE,
              ma5 |-> LastOrNone(calculate_ma(nav_values, ShortPeriod)),
              ma10 |-> LastOrNone(calculate_ma(nav_values, MidPeriod)),
              ma20 |-> LastOrNone(calculate_ma(nav_values, LongPeriod)),
              rsi |-> calculate_rsi(nav_values, RsiPeriod),
              current_nav |-> Num(nav_values[Len(nav_values)])]

----------------------------------------------------------------------------
(* final: get_trading_advice and _calculate_confidence, lines 198-253 *)

RsiOverbought == 70
RsiOversold == 30
ConfidenceBase == 50
ConfidenceGrowthBonus == 20
ConfidenceRsiBonus == 15
ConfidenceCap == 95
ConfidenceGrowth == 200
ConfidenceRsiLow == 20
ConfidenceRsiHigh == 80

\* indicators.get('rsi') with no neutral default
GetRsi_DefaultZero(indicators) == IF indicators.empty THEN Num(0) ELSE indicators.rsi

\* indicators.get(key) and indicators.get(key, default), lines 200-203
GetCurrentNav(indicators) == IF indicators.empty THEN Num(0) ELSE indicators.current_nav

GetMa5(indicators) == IF indicators.empty THEN None ELSE indicators.ma5

GetMa10(indicators) == IF indicators.empty THEN None ELSE indicators.ma10

GetRsi(indicators) == IF indicators.empty THEN Num(RsiNeutral) ELSE indicators.rsi

\* the rule with >= and <= between current_nav and ma5
TrendAdvice_Inclusive(current_nav, ma5, ma10) ==
    IF ~IsNone(ma5) /\ ~IsNone(ma10)
    THEN IF ~RatLT(current_nav, ma5) /\ RatGT(ma5, ma10)
         THEN [advice |-> "buy", reason |-> "uptrend"]
         ELSE IF ~RatGT(current_nav, ma5) /\ RatLT(ma5, ma10)
         THEN [advice |-> "sell", reason |-> "downtrend"]
         ELSE [advice |-> "hold", reason |-> "no_clear_trend"]
    ELSE [advice |-> "hold", reason |-> "no_clear_trend"]

\* the rule deciding on ma5 alone when ma10 is missing
TrendAdvice_ShortOnly(current_nav, ma5, ma10) ==
    IF ~IsNone(ma5)
    THEN IF RatGT(current_nav, ma5) /\ (IsNone(ma10) \/ RatGT(ma5, ma10))
         THEN [advice |-> "buy", reason |-> "uptrend"]
         ELSE IF RatLT(current_nav, ma5) /\ (IsNone(ma10) \/ RatLT(ma5, ma10))
         THEN [advice |-> "sell", reason |-> "downtrend"]
         ELSE [advice |-> "hold", reason |-> "no_clear_trend"]
    ELSE [advice |-> "hold", reason |-> "no_clear_trend"]

\* lines 205-215: advice and reason after the moving average rule
TrendAdvice(current_nav, ma5, ma10) ==
    IF ~IsNone(ma5) /\ ~IsNone(ma10)
    THEN IF RatGT(current_nav, ma5) /\ RatGT(ma5, ma10)
         THEN [advice |-> "buy", reason |-> "uptrend"]
         ELSE IF RatLT(current_nav, ma5) /\ RatLT(ma5, ma10)
         THEN [advice |-> "sell", reason |-> "downtrend"]
         ELSE [advice |-> "hold", reason |-> "no_clear_trend"]
    ELSE [advice |-> "hold", reason |-> "no_clear_trend"]

\* the RSI rule written as two independent ifs per branch, so that a buy
\* turned into hold is turned into sell by the next if
RsiOverride_Chained(base, rsi) ==
    IF RatGT(rsi, Num(RsiOverbought))
    THEN IF base.advice \in {"buy", "hold"}
         THEN [advice |-> "sell", reason |-> "overbought"]
         ELSE base
    ELSE IF RatLT(rsi, Num(RsiOversold))
    THEN IF base.advice \in {"sell", "hold"}
         THEN [advice |-> "buy", reason |-> "oversold"]
         ELSE base
    ELSE base

\* lines 217-231: the RSI rule applied to the advice so far
RsiOverride(base, rsi) ==
    IF RatGT(rsi, Num(RsiOverbought))
    THEN IF base.advice = "buy"
         THEN [advice |-> "hold", reason |-> "uptrend_but_overbought"]
         ELSE IF base.advice = "hold"
         THEN [advice |-> "sell", reason |-> "overbought"]
         ELSE base
    ELSE IF RatLT(rsi, Num(RsiOversold))
    THEN IF base.advice = "sell"
         THEN [advice |-> "hold", reason |-> "downtrend_but_oversold"]
         ELSE IF base.advice = "hold"
         THEN [advice |-> "buy", reason |-> "oversold"]
         ELSE base
    ELSE base

Min(a, b) == IF a < b THEN a ELSE b

Abs(x) == IF x < 0 THEN 0 - x ELSE x

\* the confidence with >= and <= at the three thresholds
calculate_confidence_Inclusive(realtime_info, indicators) ==
    LET rsi == GetRsi(indicators)
        c1 == ConfidenceBase
              + (IF Abs(realtime_info.estimate_growth) >= ConfidenceGrowth
                 THEN ConfidenceGrowthBonus ELSE 0)
        c2 == c1 + (IF ~RatGT(rsi, Num(ConfidenceRsiLow))
                       \/ ~RatLT(rsi, Num(ConfidenceRsiHigh))
                    THEN ConfidenceRsiBonus ELSE 0)
    IN  Min(c2, ConfidenceCap)

\* _calculate_confidence, lines 239-253, in hundredths
calculate_confidence(realtime_info, indicators) ==
    LET rsi == GetRsi(indicators)
        c1 == ConfidenceBase
              + (IF Abs(realtime_info.estimate_growth) > ConfidenceGrowth
                 THEN ConfidenceGrowthBonus ELSE 0)
        c2 == c1 + (IF RatLT(rsi, Num(ConfidenceRsiLow))
                       \/ RatGT(rsi, Num(ConfidenceRsiHigh))
                    THEN ConfidenceRsiBonus ELSE 0)
    IN  Min(c2, ConfidenceCap)

get_trading_advice(realtime_info, indicators) ==
    LET base == TrendAdvice(GetCurrentNav(indicators), GetMa5(indicators),
                            GetMa10(indicators))
        final == RsiOverride(base, GetRsi(indicators))
    IN  [advice |-> final.advice, reason |-> final.reason,
         confidence |-> calculate_confidence(realtime_info, indicators)]

----------------------------------------------------------------------------
(* final: analyze_fund and analyze_multiple_funds, lines 255-306 *)

\* estimate_growth values, in hundredths of a percent
GrowthFinal == {-201, -200, -120, 0, 30, 150, 200, 201}

\* what get_fund_realtime_info of the final script returns: the dict of the
\* payload, or the dict with an empty name after any failure (lines 73-82)
RealtimeDefault == [name_nonempty |-> FALSE, estimate_growth |-> 0]

RealtimeInfos(G) ==
    {RealtimeDefault} \cup {[name_nonempty |-> TRUE, estimate_growth |-> g] : g \in G}

\* nav series in time order: n points from start in steps of step
Ramp(start, step, n) == [i \in 1..n |-> start + step * (i - 1)]

\* a first leg of n1 steps of s1 and a second leg of n2 steps of s2
TwoLegs(start, s1, n1, s2, n2) ==
    [i \in 1..(1 + n1 + n2) |->
        IF i <= 1 + n1 THEN start + s1 * (i - 1)
        ELSE start + s1 * n1 + s2 * (i - 1 - n1)]

UptrendFive == <<1000, 1010, 1020, 1030, 1050>>

BaseNav == UptrendFive[1]

LegSteps == {-20, -10, 0, 10}

LegLens == {0, 3, 7, 12}

SeriesSet ==
    {<<>>, UptrendFive}
    \cup {TwoLegs(BaseNav, s1, n1, s2, n2) :
            s1 \in LegSteps, n1 \in LegLens, s2 \in LegSteps, n2 \in LegLens}

\* what get_fund_history_nav returns, newest first ([] after any failure);
\* has_null: some nav of the payload is null
Histories(S) ==
    {[navs |-> Reverse(series), has_null |-> n] : series \in S, n \in BOOLEAN}

ErrorReport(why) ==
    [status |-> "error", error |-> why, advice |-> "none", reason |-> "none",
     confidence |-> 0, indicators |-> NoIndicators, history_data_count |-> 0]

\* sum() over a window with a null in it raises TypeError
IndicatorsRaise(history) == history.has_null /\ Len(history.navs) >= MinHistory

\* analyze_fund, lines 257-297, given what the two remote calls return
analyze_fund(realtime_info, history) ==
    IF ~realtime_info.name_nonempty THEN ErrorReport("no_data")
    ELSE IF IndicatorsRaise(history) THEN ErrorReport("exception")
    ELSE LET indicators == calculate_technical_indicators(history.navs)
             trading_advice == get_trading_advice(realtime_info, indicators)
         IN  [status |-> "success", error |-> "none",
              advice |-> trading_advice.advice, reason |-> trading_advice.reason,
              confidence |-> trading_advice.confidence,
              indicators |-> indicators,
              history_data_count |-> Len(history.navs)]

InitFinal == variant = "final" /\ InitCommon

\* main(): analyze_fund(fund) on its own, on a new system
AnalyzeOne ==
    /\ variant = "final"
    /\ pc = "idle"
    /\ inputs = <<>>
    /\ \E fund_code \in {"000001"}, realtime_info \in RealtimeInfos(GrowthFinal),
          history \in Histories(SeriesSet) :
         /\ last_result' = analyze_fund(realtime_info, history)
         /\ inputs' = <<<<fund_code, [realtime_info |-> realtime_info,
                                      history |-> history]>>>>
         /\ fetch_log' = <<fund_code>>
    /\ UNCHANGED <<variant, clock, fund_cache, pc, batch, idx, results, calls,
                   ncalls, groups>>

\* indicator dicts handed to get_trading_advice directly
RsiValues == {0, 19, 20, 21, 29, 30, 31, 50, 69, 70, 71, 79, 80, 81, 100}

NavValues == {1, 2, 3}

IndicatorDicts ==
    {NoIndicators}
    \cup {[empty |-> FALSE, ma5 |-> a, ma10 |-> b, ma20 |-> None, rsi |-> Num(r),
           current_nav |-> Num(c)] :
            a \in {None} \cup {Num(v) : v \in NavValues},
            b \in {None} \cup {Num(v) : v \in NavValues},
            r \in RsiValues, c \in NavValues}

\* get_trading_advice(fund_code, realtime_info, indicators) on its own, on a
\* new system
AdviceCall ==
    /\ variant = "final"
    /\ pc = "idle"
    /\ inputs = <<>>
    /\ \E fund_code \in {"000001"},
          realtime_info \in RealtimeInfos({-201, 0, 201}) \ {RealtimeDefault},
          indicators \in IndicatorDicts :
         LET trading_advice == get_trading_advice(realtime_info, indicators)
         IN  /\ last_result' =
                   [status |-> "advice", error |-> "none",
                    advice |-> trading_advice.advice,
                    reason |-> trading_advice.reason,
                    confidence |-> trading_advice.confidence,
                    indicators |-> indicators, history_data_count |-> 0]
             /\ inputs' = <<<<fund_code, [realtime_info |-> realtime_info,
                                          history |-> [navs |-> <<>>,
                                                       has_null |-> FALSE]]>>>>
             /\ fetch_log' = <<>>
    /\ UNCHANGED <<variant, clock, fund_cache, pc, batch, idx, results, calls,
                   ncalls, groups>>

\* the answers drawn while a batch is followed
SeriesBatch == {<<>>, Ramp(BaseNav, 10, 10), Ramp(BaseNav, -10, 10)}

\* analyze_multiple_funds(fund_codes): results = {}
FinalStart ==
    /\ variant = "final"
    /\ pc = "idle"
    /\ \E b \in Batches : batch' = b
    /\ idx' = 1
    /\ results' = <<>>
    /\ inputs' = <<>>
    /\ last_result' = ErrorResult
    /\ pc' = "fetch"
    /\ fetch_log' = <<>>
    /\ UNCHANGED <<variant, clock, fund_cache, calls, ncalls, groups>>

\* line 303, right-hand side: analyze_fund(fund_codes[idx])
FinalAnalyze ==
    /\ variant = "final"
    /\ pc = "fetch"
    /\ \E realtime_info \in RealtimeInfos({150}),
          history \in Histories(SeriesBatch) :
         /\ last_result' = analyze_fund(realtime_info, history)
         /\ inputs' = DictSet(inputs, batch[idx],
                              [realtime_info |-> realtime_info, history |-> history])
    /\ fetch_log' = Append(fetch_log, batch[idx])
    /\ pc' = "store"
    /\ UNCHANGED <<variant, clock, fund_cache, batch, idx, results, calls, ncalls,
                   groups>>

\* line 303, the assignment, and the sleep of line 305
FinalStore ==
    /\ variant = "final"
    /\ pc = "store"
    /\ results' = DictSet(results, batch[idx], last_result)
    /\ clock' = clock + 1
    /\ IF idx < Len(batch)
       THEN idx' = idx + 1 /\ pc' = "fetch"
       ELSE idx' = idx /\ pc' = "done"
    /\ UNCHANGED <<variant, fund_cache, batch, last_result, calls, ncalls, groups,
                   inputs, fetch_log>>

NextFinal == AnalyzeOne \/ AdviceCall \/ FinalStart \/ FinalAnalyze \/ FinalStore

SpecFinal == InitFinal /\ [][NextFinal]_vars

----------------------------------------------------------------------------
(* basic: get_trading_advice of fund_quant_system.py, lines 69-89 *)

\* the last n elements, historical_data[-n:]
LastN(seq, n) ==
    IF Len(seq) <= n THEN seq ELSE [i \in 1..n |-> seq[Len(seq) - n + i]]

BasicAdvice(current_valuation, historical_data) ==
    IF Len(historical_data) < 5
    THEN [advice |-> "hold", reason |-> "insufficient_history"]
    ELSE LET ma5 == Rat(SumSeq(LastN(historical_data, 5), 1, 5), 5)
             ma10 == IF Len(historical_data) >= 10
                     THEN Rat(SumSeq(LastN(historical_data, 10), 1, 10), 10)
                     ELSE ma5
             cur == Num(current_valuation)
         IN  IF RatGT(cur, ma5) /\ RatGT(ma5, ma10)
             THEN [advice |-> "buy", reason |-> "uptrend"]
             ELSE IF RatLT(cur, ma5) /\ RatLT(ma5, ma10)
             THEN [advice |-> "sell", reason |-> "downtrend"]
             ELSE [advice |-> "hold", reason |-> "no_clear_trend"]

\* lines 72-75: without historical data ten values from 0.95 to 1.04 times the
\* valuation are made up; both sides are taken times 100
basic_get_trading_advice(current_valuation, historical_data, is_none) ==
    IF is_none
    THEN BasicAdvice(100 * current_valuation,
                     [i \in 1..10 |-> current_valuation * (94 + i)])
    ELSE BasicAdvice(current_valuation, historical_data)

InitBasic == variant = "basic" /\ InitCommon

\* get_trading_advice(fund_code, current_valuation, historical_data) on a
\* new system, the valuation being the latest nav or the base nav
BasicAdviceCall ==
    /\ variant = "basic"
    /\ pc = "idle"
    /\ inputs = <<>>
    /\ \E series \in SeriesSet, is_none \in BOOLEAN :
         \E current_valuation \in
                {BaseNav} \cup {series[i] : i \in {Len(series)} \cap DOMAIN series} :
            LET a == basic_get_trading_advice(current_valuation, series, is_none)
            IN  /\ last_result' =
                      [status |-> "basic", error |-> "none", advice |-> a.advice,
                       reason |-> a.reason, confidence |-> 0,
                       indicators |-> NoIndicators,
                       history_data_count |-> Len(series)]
                /\ inputs' = <<<<"000001",
                                 [current_valuation |-> current_valuation,
                                  historical_data |-> series,
                                  is_none |-> is_none]>>>>
    /\ UNCHANGED <<variant, clock, fund_cache, pc, batch, idx, results, calls,
                   ncalls, groups, fetch_log>>

NextBasic == BasicAdviceCall

\* the two scripts with a trend rule
SpecTrend == (InitFinal \/ InitBasic) /\ [][NextFinal \/ NextBasic]_vars

----------------------------------------------------------------------------
(* The two scripts with a batch *)

Init == InitSimple \/ InitFinal

Next == NextSimple \/ NextFinal

Spec == Init /\ [][Next]_vars

\* a batch once entered runs on: every step of the loop is straight-line code
\* and the requests carry a timeout
FairSpec ==
    /\ Spec
    /\ WF_vars(BatchAnalyze) /\ WF_vars(BatchStore)
    /\ WF_vars(FinalAnalyze) /\ WF_vars(FinalStore)

----------------------------------------------------------------------------
(* Claims on the cache of the simple script (SpecCache) *)

\* consecutive calls a, b of get_fund_realtime_info for one fund
CallPairs ==
    {<<calls[f][1], calls[f][2]>> : f \in {g \in Funds : Len(calls[g]) = 2}}

AllCalls == UNION {{calls[f][i] : i \in 1..Len(calls[f])} : f \in Funds}

Age(c) == c.now - c.pre.timestamp

\* C1 as stated: the first call for a fund and the next one within the ttl
\* window invoke the fetch exactly once and the second returns the stored
\* payload; a call at an expired entry fetches and replaces payload and
\* timestamp.
C1_Original ==
    /\ \A p \in CallPairs :
         (~p[1].pre.present /\ p[2].now - p[1].now < TimeoutTicks)
            => (p[1].fetched /\ ~p[2].fetched /\ p[2].ret = p[2].pre.data)
    /\ \A c \in AllCalls :
         (c.pre.present /\ Age(c) >= TimeoutTicks)
            => (c.fetched /\ c.post = Entry(c.ret, c.now))

\* C1 amended: when a call fetched and its fetch did not raise, the next call
\* for the same fund within the ttl window of it invokes no fetch, returns
\* the payload stored by the first and leaves the entry as it is; a call at
\* an entry whose age has reached the ttl invokes the fetch and, unless the
\* fetch raises, replaces payload and timestamp by what it got and the time
\* read at its start.
C1_CacheHitAndRefresh ==
    /\ \A p \in CallPairs :
         (p[1].fetched /\ ~p[1].raised /\ p[2].now - p[1].now < TimeoutTicks)
            => (~p[2].fetched /\ p[2].ret = p[1].ret /\ p[2].post = p[1].post
                /\ p[1].post = Entry(p[1].ret, p[1].now))
    /\ \A c \in AllCalls :
         (c.pre.present /\ Age(c) >= TimeoutTicks)
            => (c.fetched /\ (~c.raised => c.post = Entry(c.ret, c.now)))

\* two calls one tick short of the ttl apart, the second served from the cache
C1_Witness ==
    \E p \in CallPairs :
        /\ p[1].fetched /\ ~p[1].raised /\ p[1].ret.nonempty
        /\ p[2].now - p[1].now = TimeoutTicks - 1
        /\ ~p[2].fetched /\ p[2].ret = p[1].ret

\* what the claim calls a failed fetch: a transport error, a body that does
\* not parse, or a payload whose number does not convert
FetchFails(resp) ==
    resp.net = "error" \/ resp.body = "garbage" \/ ConversionRaises(resp)

\* C2: a call whose fetch fails leaves the cache entry of the fund exactly as
\* it was before the call and returns the empty dict to the caller.
C2_FailedRefreshKeepsEntry ==
    \A c \in AllCalls :
        (c.fetched /\ FetchFails(c.resp)) => (c.post = c.pre /\ ~c.ret.nonempty)

----------------------------------------------------------------------------
(* Claims on the growth-only advice of the simple script (SpecGrowth) *)

\* the growth the analysis of the running operation saw for its only fund
SeenGrowth == IF inputs[1][2].ret.has_gszzl THEN inputs[1][2].ret.gszzl ELSE 0

\* C4: the advice is a function of the growth alone: above 1.0 sell, below
\* -1.0 buy, above 0.5 up to 1.0 hold, from -1.0 up to but not below -0.5
\* watch, otherwise hold; 1.0 gives hold, -1.0 gives watch, 0.5 and -0.5 hold.
C4_GrowthPrecedence ==
    (Len(inputs) = 1 /\ inputs[1][2].ret.nonempty) =>
        LET g == SeenGrowth
            expected == IF g >= 101 THEN "sell"
                        ELSE IF g <= -101 THEN "buy"
                        ELSE IF g \in 51..100 THEN "hold"
                        ELSE IF g \in -100..-51 THEN "watch"
                        ELSE "hold"
        IN  /\ ~last_result.error
            /\ last_result.advice = expected
            /\ last_result.growth_rate = g
            /\ (g = 100 => last_result.reason = "small_rise")
            /\ (g \in {50, -50} => last_result.reason = "stable")

\* the boundary -1.0 falls through the buy rule to watch
C4_Witness ==
    /\ Len(inputs) = 1
    /\ inputs[1][2].ret.nonempty
    /\ SeenGrowth = -100
    /\ last_result.advice = "watch"

----------------------------------------------------------------------------
(* Claims on the final script (SpecFinal) *)

\* <<what the remote side answered, report>> of every analysis of the running
\* operation whose report is at hand
Analysed ==
    IF variant # "final" THEN {}
    ELSE {<<DictGet(inputs, results[i][1]), results[i][2]>> : i \in 1..Len(results)}
         \cup (IF pc = "store" THEN {<<DictGet(inputs, batch[idx]), last_result>>}
               ELSE {})
         \cup (IF pc = "idle" /\ Len(inputs) = 1 THEN {<<inputs[1][2], last_result>>}
               ELSE {})

\* the reports that carry an advice
Advised == {a \in Analysed : a[2].status \in {"success", "advice"}}

\* the reports of analyze_fund
Reports == {a \in Analysed : a[2].status \in {"success", "error"}}

\* C5: with real-time data fetched and fewer than 5 points of history the
\* report is no error and its advice is the growth-only advice of the same-day
\* growth (above 1.0 sell, below -1.0 buy, ...).
C5_GrowthOnlyWhenNoAverages ==
    \A a \in Reports :
        (a[1].realtime_info.name_nonempty /\ Len(a[1].history.navs) < 5)
            => /\ a[2].status = "success"
               /\ a[2].advice = GrowthAdvice(a[1].realtime_info.estimate_growth).advice

InTrendRange(rsi) == ~RatLT(rsi, Num(30)) /\ ~RatGT(rsi, Num(70))

BothPresent(ind) == ~IsNone(GetMa5(ind)) /\ ~IsNone(GetMa10(ind))

Rising(ind) ==
    RatGT(GetCurrentNav(ind), GetMa5(ind)) /\ RatGT(GetMa5(ind), GetMa10(ind))

Falling(ind) ==
    RatLT(GetCurrentNav(ind), GetMa5(ind)) /\ RatLT(GetMa5(ind), GetMa10(ind))

\* C6: with ma5 and ma10 present and RSI in [30, 70] the advice is buy exactly
\* when current_nav > ma5 > ma10, sell exactly when current_nav < ma5 < ma10,
\* and hold otherwise.
C6_TrendBaseSignal ==
    \A a \in Advised :
        LET ind == a[2].indicators
        IN  (BothPresent(ind) /\ InTrendRange(GetRsi(ind)))
                => /\ (a[2].advice = "buy") = Rising(ind)
                   /\ (a[2].advice = "sell") = Falling(ind)
                   /\ (a[2].advice = "hold") = (~Rising(ind) /\ ~Falling(ind))

\* current_nav equal to ma5 above ma10: hold
C6_Witness ==
    \E a \in Advised :
        LET ind == a[2].indicators
        IN  /\ BothPresent(ind) /\ InTrendRange(GetRsi(ind))
            /\ RatEQ(GetCurrentNav(ind), GetMa5(ind))
            /\ RatGT(GetMa5(ind), GetMa10(ind))
            /\ a[2].advice = "hold"

\* the base signal of the trend rule
BaseSignal(ind) ==
    IF BothPresent(ind) /\ Rising(ind) THEN "buy"
    ELSE IF BothPresent(ind) /\ Falling(ind) THEN "sell"
    ELSE "hold"

\* C7: RSI above 70 turns base buy into hold and base hold into sell, sell
\* stays; RSI below 30 turns base sell into hold and base hold into buy, buy
\* stays; RSI of exactly 70 or 30, or between, changes nothing; one step only.
C7_MomentumOverride ==
    \A a \in Advised :
        LET ind == a[2].indicators
            base == BaseSignal(ind)
            rsi == GetRsi(ind)
            expected ==
                IF RatGT(rsi, Num(70))
                THEN (CASE base = "buy" -> "hold"
                        [] base = "hold" -> "sell"
                        [] base = "sell" -> "sell")
                ELSE IF RatLT(rsi, Num(30))
                THEN (CASE base = "sell" -> "hold"
                        [] base = "hold" -> "buy"
                        [] base = "buy" -> "buy")
                ELSE base
        IN  a[2].advice = expected

\* a base buy under RSI above 70 ends as hold
C7_Witness ==
    \E a \in Advised :
        LET ind == a[2].indicators
        IN  /\ BaseSignal(ind) = "buy"
            /\ RatGT(GetRsi(ind), Num(70))
            /\ a[2].advice = "hold"

\* C8: the confidence is 0.5, plus 0.2 when the growth exceeds 2 in absolute
\* value, plus 0.15 when RSI is below 20 or above 80 (50 for an empty
\* snapshot), and lies in [0.5, 0.95].
C8_ConfidenceBounds ==
    \A a \in Advised :
        LET g == a[1].realtime_info.estimate_growth
            ind == a[2].indicators
            rsi == IF ind.empty THEN Num(50) ELSE ind.rsi
            big == g > 200 \/ g < -200
            extreme == RatLT(rsi, Num(20)) \/ RatGT(rsi, Num(80))
        IN  /\ a[2].confidence =
                  (CASE big /\ extreme -> 85
                     [] big /\ ~extreme -> 70
                     [] ~big /\ extreme -> 65
                     [] OTHER -> 50)
            /\ a[2].confidence >= 50
            /\ a[2].confidence <= 95

\* both bonuses at once
C8_Witness ==
    \E a \in Advised :
        /\ a[1].realtime_info.estimate_growth = -201
        /\ ~a[2].indicators.empty
        /\ RatEQ(a[2].indicators.rsi, Num(81))
        /\ a[2].confidence = 85

\* C9: with fewer than 5 points of history (none included, a null among them
\* or not) the analysis does not fail, the indicators are the empty dict, and
\* the decision function reads ma5 and ma10 as absent and RSI as 50 (so the
\* confidence carries no RSI bonus).
C9_ShortSeriesNeutral ==
    \A a \in Reports :
        (a[1].realtime_info.name_nonempty /\ Len(a[1].history.navs) < 5)
            => /\ a[2].status = "success"
               /\ a[2].indicators = NoIndicators
               /\ IsNone(GetMa5(a[2].indicators))
               /\ IsNone(GetMa10(a[2].indicators))
               /\ GetRsi(a[2].indicators) = Num(50)
               /\ a[2].confidence \in {50, 70}

\* four points, one of them null
C9_Witness ==
    \E a \in Reports :
        /\ a[1].realtime_info.name_nonempty
        /\ Len(a[1].history.navs) = 4
        /\ a[1].history.has_null
        /\ a[2].status = "success"

\* the scenario of C10: the five points, growth 0.3
IsUptrendFive(a) ==
    /\ a[1].realtime_info.name_nonempty
    /\ a[1].realtime_info.estimate_growth = 30
    /\ a[1].history = [navs |-> Reverse(UptrendFive), has_null |-> FALSE]

\* the same series handed to get_trading_advice of the basic script with the
\* latest nav as valuation
IsBasicUptrendFive ==
    /\ variant = "basic"
    /\ Len(inputs) = 1
    /\ inputs[1][2].historical_data = UptrendFive
    /\ ~inputs[1][2].is_none
    /\ inputs[1][2].current_valuation = 1050

\* C10 as stated: ma5 is 1.022, the trend rule applies and the advice is buy.
C10_Original ==
    /\ \A a \in Reports :
         IsUptrendFive(a)
            => /\ RatEQ(GetMa5(a[2].indicators), Num(1022))
               /\ a[2].advice = "buy"
    /\ IsBasicUptrendFive => last_result.advice = "buy"

\* C10 amended: ma5 is 1.022 and current_nav 1.05 is above it, but ma10 is
\* absent (fewer than 10 points), so the trend rule is not applied; RSI is 50
\* (fewer than 15 points) and the advice is hold, no clear trend; the basic
\* script, which takes ma10 to be ma5 below 10 points, holds as well.
C10_UptrendFiveHolds ==
    /\ \A a \in Reports :
         IsUptrendFive(a)
            => /\ a[2].status = "success"
               /\ RatEQ(GetMa5(a[2].indicators), Num(1022))
               /\ RatGT(GetCurrentNav(a[2].indicators), GetMa5(a[2].indicators))
               /\ IsNone(GetMa10(a[2].indicators))
               /\ RatEQ(GetRsi(a[2].indicators), Num(50))
               /\ a[2].advice = "hold"
               /\ a[2].reason = "no_clear_trend"
    /\ IsBasicUptrendFive =>
          (last_result.advice = "hold" /\ last_result.reason = "no_clear_trend")

C10_Witness == \E a \in Reports : IsUptrendFive(a) /\ a[2].advice = "hold"

----------------------------------------------------------------------------
(* Claims on the batch of both scripts (FairSpec) *)

\* whether the analysis of a fund failed, from what the remote side answered:
\* simple: the fetch failed, or the entry served from the cache is empty;
\* final: no real-time data, or the indicators raise on a null
Failing(in) ==
    IF variant = "simple"
    THEN IF in.fetched THEN FetchFails(in.resp) ELSE ~in.ret.nonempty
    ELSE ~in.realtime_info.name_nonempty
            \/ (in.history.has_null /\ Len(in.history.navs) >= 5)

IsErrorMarker(r) ==
    IF variant = "simple" THEN r.error ELSE r.status = "error"

\* a recommendation that depends on the fund's own answer alone
IsOwnRecommendation(r, in) ==
    IF variant = "simple"
    THEN /\ ~r.error
         /\ r.advice \in {"buy", "sell", "hold", "watch"}
         /\ r.growth_rate = in.ret.gszzl
         /\ r.advice = (CASE in.ret.gszzl = -101 -> "buy"
                          [] in.ret.gszzl = -51 -> "watch"
                          [] in.ret.gszzl = 0 -> "hold"
                          [] in.ret.gszzl = 101 -> "sell")
    ELSE /\ r.status = "success"
         /\ r.advice \in {"buy", "sell", "hold"}
         /\ r.history_data_count = Len(in.history.navs)
         /\ r.advice = (IF Len(in.history.navs) < 10 THEN "hold"
                        ELSE IF in.history.navs[1] > in.history.navs[2] THEN "buy"
                        ELSE "sell")

C3_Entries ==
    pc = "done" =>
        /\ DictKeys(results) = batch
        /\ \A i \in 1..Len(batch) :
             LET in == DictGet(inputs, batch[i])
                 r == DictGet(results, batch[i])
             IN  IF Failing(in) THEN IsErrorMarker(r) ELSE IsOwnRecommendation(r, in)

----------------------------------------------------------------------------
(* Claims on the RSI of analyze_fund (SpecFinal) *)

\* the nav series of an analysis in time order
SeriesOf(a) == Reverse(a[1].history.navs)

StrictlyIncreasing(series) ==
    \A i \in 1..(Len(series) - 1) : series[i] < series[i + 1]

StrictlyDecreasing(series) ==
    \A i \in 1..(Len(series) - 1) : series[i] > series[i + 1]

Flat(series) ==
    \A i \in 1..(Len(series) - 1) : series[i] = series[i + 1]

\* the successful reports over a series without a null
NumericReports ==
    {a \in Reports : a[2].status = "success" /\ ~a[1].history.has_null}

\* C11: with period 14 the RSI read by the decision is 100 for every strictly
\* increasing nav series of at least 15 points, 0 for every strictly
\* decreasing one, 50 for a flat one, and 50 for every series of fewer than
\* 15 points; it is always a number in [0, 100].
C11_RsiMonotone ==
    \A a \in NumericReports :
        LET series == SeriesOf(a)
            rsi == GetRsi(a[2].indicators)
        IN  /\ ~IsNone(rsi)
            /\ ~RatLT(rsi, Num(0))
            /\ ~RatGT(rsi, Num(100))
            /\ (Len(series) >= 15 /\ StrictlyIncreasing(series))
                  => RatEQ(rsi, Num(100))
            /\ (Len(series) >= 15 /\ StrictlyDecreasing(series))
                  => RatEQ(rsi, Num(0))
            /\ (Len(series) >= 15 /\ Flat(series)) => RatEQ(rsi, Num(50))
            /\ Len(series) < 15 => RatEQ(rsi, Num(50))

\* a flat series of 15 points or more gives 50
C11_Witness ==
    \E a \in NumericReports :
        /\ Len(SeriesOf(a)) >= 15
        /\ Flat(SeriesOf(a))
        /\ RatEQ(GetRsi(a[2].indicators), Num(50))

\* a strictly increasing series of exactly 15 points gives 100
C11_WitnessRising ==
    \E a \in NumericReports :
        /\ Len(SeriesOf(a)) = 15
        /\ StrictlyIncreasing(SeriesOf(a))
        /\ RatEQ(GetRsi(a[2].indicators), Num(100))

\* a strictly decreasing series of unequal steps gives 0
C11_WitnessFalling ==
    \E a \in NumericReports :
        /\ Len(SeriesOf(a)) >= 15
        /\ StrictlyDecreasing(SeriesOf(a))
        /\ SeriesOf(a)[1] - SeriesOf(a)[2] # SeriesOf(a)[Len(SeriesOf(a)) - 1] - SeriesOf(a)[Len(SeriesOf(a))]
        /\ RatEQ(GetRsi(a[2].indicators), Num(0))

\* a series of 14 points that rises all the way gives 50
C11_WitnessShort ==
    \E a \in NumericReports :
        /\ Len(SeriesOf(a)) \in 5..14
        /\ StrictlyIncreasing(SeriesOf(a))
        /\ RatEQ(GetRsi(a[2].indicators), Num(50))

----------------------------------------------------------------------------
(* Claims on the summary of the simple script (SpecSimple) *)

GroupNames == {"buy", "sell", "watch", "hold"}

\* the positions of x in seq
Positions(seq, x) == {i \in 1..Len(seq) : seq[i] = x}

\* whether seq keeps the relative order its members have in whole
InOrderOf(seq, whole) ==
    \A i, j \in 1..Len(seq) :
        i < j => \E k \in Positions(whole, seq[i]), l \in Positions(whole, seq[j]) :
                    k < l

\* C12: when get_trading_summary has grouped the results of a batch, every
\* fund whose entry is a recommendation stands exactly once in the list of
\* its advice (buy, sell, watch, hold) and in no other list, no fund whose
\* entry is an error stands in any list, and every list keeps the relative
\* order of the input fund_codes.
C12_SummaryGroups ==
    (variant = "simple" /\ pc = "done") =>
        /\ \A i \in 1..Len(batch) :
             LET fund_code == batch[i]
                 result == DictGet(results, fund_code)
             IN  \A name \in GroupNames :
                    Cardinality(Positions(groups[name], fund_code)) =
                        (IF ~result.error /\ result.advice = name THEN 1 ELSE 0)
        /\ \A name \in GroupNames :
             /\ \A k \in 1..Len(groups[name]) :
                    Positions(batch, groups[name][k]) # {}
             /\ InOrderOf(groups[name], batch)

\* three funds given out of their sorted order: the first and the third are
\* to be watched and stand in that order, the second failed and stands nowhere
C12_Witness ==
    /\ variant = "simple"
    /\ pc = "done"
    /\ batch = <<"519697", "000001", "110022">>
    /\ results[2][2].error
    /\ groups.watch = <<"519697", "110022">>
    /\ groups.buy = <<>> /\ groups.sell = <<>> /\ groups.hold = <<>>

----------------------------------------------------------------------------
(* Claims on the requests of a batch (Spec) *)

InBatch == pc \in {"fetch", "store", "done"}

\* the requests sent so far are for distinct funds of the batch, in the
\* order of fund_codes, and none is for a fund after the one being processed
C13_Log ==
    InBatch =>
        /\ \A f \in Funds : Cardinality(Positions(fetch_log, f)) <= 1
        /\ \A k \in 1..Len(fetch_log) :
             \E i \in Positions(batch, fetch_log[k]) :
                i <= (IF pc = "fetch" THEN idx - 1 ELSE idx)
        /\ InOrderOf(fetch_log, batch)

\* a step of a batch that sends a request sends one, for the fund being
\* processed, when the entries of all funds before it are in results
C13_Send ==
    (pc = "fetch" /\ fetch_log' # fetch_log) =>
        /\ fetch_log' = Append(fetch_log, batch[idx])
        /\ DictKeys(results) = SubSeq(batch, 1, idx - 1)
        /\ results' = results

\* C13: in a batch over distinct fund codes the real-time request is sent at
\* most once for every fund code, whether it succeeds or fails, in the order
\* of fund_codes, and the request for a fund is sent only when the entry of
\* the fund before it has been written to results.
C13_NoRetrySequential == [](C13_Log) /\ [][C13_Send]_vars

\* three funds, the first served from the cache: the request of the second
\* failed and was sent once, the request of the third followed it
C13_Witness ==
    /\ variant = "simple"
    /\ pc = "done"
    /\ batch = <<"000001", "519697", "110022">>
    /\ ~DictGet(inputs, "000001").fetched
    /\ DictGet(inputs, "519697").resp.net = "error"
    /\ fetch_log = <<"519697", "110022">>
    /\ Len(results) = 3

----------------------------------------------------------------------------
(* Claims on the staleness boundary of the simple script (SpecCache) *)

\* a call for a fund with an entry sends no request exactly when the age of
\* the entry, the time read at the start of the call less the stored
\* timestamp, is below cache_timeout; at the age of cache_timeout it sends one
C14_Reads ==
    \A c \in AllCalls :
        /\ c.pre.present => (~c.fetched <=> Age(c) < TimeoutTicks)
        /\ (c.pre.present /\ Age(c) = TimeoutTicks) => c.fetched
        /\ ~c.pre.present => c.fetched
        /\ (c.fetched /\ ~c.raised) => c.post.timestamp = c.now
        /\ ~c.fetched => (c.post = c.pre /\ c.ret = c.pre.data)

\* a step that writes an entry stamps it with the time at which the step
\* began, however long the request took
C14_Stamp ==
    \A f \in Funds :
        fund_cache'[f] # fund_cache[f] =>
            /\ fund_cache'[f].present
            /\ fund_cache'[f].timestamp = clock
            /\ clock' \in {clock + d : d \in Latency}

\* C14: an entry is served without a request only while now - timestamp is
\* strictly below cache_timeout (300 s); a read at the age of exactly
\* cache_timeout takes the entry as stale and sends the request; the timestamp
\* stored with a refreshed entry is the time read at the start of the call
\* that fetched, not the time at which the request completed.
C14_StalenessBoundary == [](C14_Reads) /\ [][C14_Stamp]_vars

\* an entry stored at the start of a request read again exactly
\* cache_timeout later: the read sends a request that takes half a second,
\* and the new entry carries the time at which that read began
C14_Witness ==
    \E p \in CallPairs :
        /\ p[1].fetched /\ ~p[1].raised
        /\ p[2].pre = p[1].post
        /\ p[2].now - p[2].pre.timestamp = TimeoutTicks
        /\ p[2].fetched /\ ~p[2].raised
        /\ p[2].post.timestamp = p[2].now
        /\ clock = p[2].now + 1

====
